---- MODULE Spec2Model ----
(***************************************************************************)
(* Model of the nimble binary codec (src/nimble/src): the Encode and       *)
(* Decode implementations of the built-in types, VarInt and ZigZag, and    *)
(* the Config entry points, driven over a caller-owned byte stream.        *)
(*                                                                         *)
(* Integers of every width are bit vectors: a sequence of 0/1 of the       *)
(* type's width, least significant bit first, in two's complement.  Bytes  *)
(* on the stream are numbers 0..255.                                       *)
(***************************************************************************)
EXTENDS Integers, Sequences, FiniteSets, TLC

(***************************************************************************)
(* Bounds of the model.                                                    *)
(***************************************************************************)
\* longest run of continuation bytes offered to VarInt::decode_from
MaxContinuation == 40
\* longest sequence container / string drawn as an input value
MaxLen == 2

(***************************************************************************)
(* Bit vectors: the integer operators the source applies.                  *)
(***************************************************************************)
Pow2(k) == 2^k

\* a function over 1..n as the tuple of its values
Tuple(f) == <<>> \o f

\* F applied to the value of x, x evaluated once
With(x, F(_)) == CHOOSE r \in {F(b) : b \in {x}} : TRUE

\* the w-bit value of a small natural number n (n < 2^30)
FromNat(w, n) ==
    Tuple([i \in 1..w |-> IF i > 30 THEN 0 ELSE (n \div Pow2(i - 1)) % 2])

\* the natural number held by bits lo..hi (at most 30 bits) of a vector
RECURSIVE BitsToNat(_, _, _)
BitsToNat(bv, lo, hi) ==
    IF hi < lo THEN 0 ELSE bv[lo] + 2 * BitsToNat(bv, lo + 1, hi)

\* a value that fits 30 bits, as a number (callers guard with FitsNat)
FitsNat(bv) == \A i \in 1..Len(bv) : i > 30 => bv[i] = 0
ToNat(bv) == BitsToNat(bv, 1, IF Len(bv) > 30 THEN 30 ELSE Len(bv))

Zero(w) == Tuple([i \in 1..w |-> 0])
Ones(w) == Tuple([i \in 1..w |-> 1])

\* self << k, bits shifted out are lost
Shl(bv, k) ==
    LET w == Len(bv)
    IN  Tuple([i \in 1..w |-> IF i - k >= 1 THEN bv[i - k] ELSE 0])
\* logical self >> k (unsigned types)
Shr(bv, k) ==
    LET w == Len(bv)
    IN  Tuple([i \in 1..w |-> IF i + k <= w THEN bv[i + k] ELSE 0])
\* arithmetic self >> k (signed types): the sign bit is replicated
Sar(bv, k) ==
    LET w == Len(bv)
    IN  Tuple([i \in 1..w |-> IF i + k <= w THEN bv[i + k] ELSE bv[w]])
BitXor(a, b) == Tuple([i \in 1..Len(a) |-> (a[i] + b[i]) % 2])
BitOr(a, b) == Tuple([i \in 1..Len(a) |-> IF a[i] + b[i] > 0 THEN 1 ELSE 0])
BitAnd(a, b) == Tuple([i \in 1..Len(a) |-> a[i] * b[i]])
\* wrapping two's complement negation: bits above the lowest set bit flip
Neg(bv) ==
    Tuple([i \in 1..Len(bv) |->
             IF \E j \in 1..(i - 1) : bv[j] = 1 THEN 1 - bv[i] ELSE bv[i]])

(***************************************************************************)
(* ZigZag (varint.rs, impl_zigzag).                                        *)
(***************************************************************************)
\* a plausible slip: a logical instead of an arithmetic right shift
encode_zigzag_logical(self) ==
    BitXor(Shl(self, 1), Shr(self, Len(self) - 1))

\* ((self << 1) ^ (self >> (size_of::<Self>() * 8 - 1))) as Self::Output
encode_zigzag(self) ==
    BitXor(Shl(self, 1), Sar(self, Len(self) - 1))

\* ((encoded >> 1) ^ (-(encoded as Self & 1)) as Self::Output) as Self
decode_zigzag(encoded) ==
    BitXor(Shr(encoded, 1), Neg(BitAnd(encoded, FromNat(Len(encoded), 1))))

(***************************************************************************)
(* Conversions between the integer types and VarInt (varint.rs).  The name *)
(* of the integer type stands for the type.                                *)
(***************************************************************************)
\* u128::from and i128::from of a narrower integer
ZeroExtend(bv, w) == Tuple([i \in 1..w |-> IF i <= Len(bv) THEN bv[i] ELSE 0])
SignExtend(bv, w) == Tuple([i \in 1..w |-> IF i <= Len(bv) THEN bv[i] ELSE bv[Len(bv)]])

\* the error of a failed integer conversion, as an Error
TryFromIntError == <<"TryFromIntError">>

\* impl From<T> for VarInt, impl TryFrom<usize> and TryFrom<isize> for
\* VarInt: the unsigned types directly, the signed types through ZigZag,
\* isize as an i128
VarInt_from(name, num) ==
    IF name = "isize" THEN encode_zigzag(SignExtend(num, 128))
    ELSE IF name \in {"i8", "i16", "i32", "i64", "i128"}
         THEN ZeroExtend(encode_zigzag(num), 128)
    ELSE ZeroExtend(num, 128)

\* a plausible slip: the magnitude is cast with `as`, its high bits dropped
try_from_u128_as(w, magnitude) == <<"Ok", SubSeq(magnitude, 1, w)>>

\* <uN>::try_from(value.0) of the u128 magnitude, for the unsigned type of
\* w bits
try_from_u128(w, magnitude) ==
    IF \E i \in (w + 1)..Len(magnitude) : magnitude[i] = 1
    THEN <<"Err", TryFromIntError>>
    ELSE <<"Ok", SubSeq(magnitude, 1, w)>>

\* impl TryFrom<VarInt> for T: the unsigned types by try_from, the signed
\* types by try_from to their unsigned counterpart and decode_zigzag
VarInt_try_into(name, w, magnitude) ==
    With(try_from_u128(w, magnitude),
         LAMBDA r : IF r[1] = "Err" THEN r
                    ELSE IF name \in {"i8", "i16", "i32", "i64", "i128", "isize"}
                         THEN <<"Ok", decode_zigzag(r[2])>>
                    ELSE r)

(***************************************************************************)
(* Types and values.  A type is a tuple headed by its name:                *)
(*   <<"u8">> ... <<"i128">>, <<"usize">>, <<"isize">>, <<"bool">>,        *)
(*   <<"char">>, <<"String">>, <<"VarInt">>, <<"Option", T>>,              *)
(*   <<"Result", T, E>>, <<"Vec", T>>, <<"Box", T>>, <<"Array", T, N>>,    *)
(*   <<"Tuple", <<T0, T1, ...>>>>, and the derived types                   *)
(*   <<"Struct", <<F0, F1, ...>>>> (the field types in declared order) and *)
(*   <<"Enum", <<V0, V1, ...>>>> (per variant, in declared order, the      *)
(*   tuple of its field types).                                            *)
(* Integer values are bit vectors, bool is a BOOLEAN, char is its code     *)
(* point, String is its sequence of bytes, VarInt its u128 magnitude,      *)
(* Option is <<"None">> or <<"Some", x>>, Result is <<"Ok", x>> or         *)
(* <<"Err", e>>, and Vec, Array, Tuple and Struct are sequences of         *)
(* components; an Enum value is <<i, fields>>, the 0-based declaration     *)
(* index of its variant and the variant's field values.                    *)
(***************************************************************************)
IntTypes == {"u8", "u16", "u32", "u64", "u128", "usize",
             "i8", "i16", "i32", "i64", "i128", "isize"}

\* the types behind a u64 length prefix: impl_seq, impl_map, impl_as_bytes
ContainerTypes == {"Vec", "BTreeSet", "BTreeMap", "String"}

\* the build: the pointer width of the target the crate is compiled for
VARIABLE target_pointer_width

\* core::mem::size_of::<usize>() * 8
UsizeBits == target_pointer_width

\* core::mem::size_of::<Self>() * 8 of the impl_primitive integer types
Width(name) ==
    CASE name \in {"u8", "i8"} -> 8
      [] name \in {"u16", "i16"} -> 16
      [] name \in {"u32", "i32"} -> 32
      [] name \in {"u64", "i64"} -> 64
      [] name \in {"u128", "i128"} -> 128
      [] name \in {"usize", "isize"} -> UsizeBits

U8 == <<"u8">>
U16 == <<"u16">>
U32 == <<"u32">>
U64 == <<"u64">>
I32 == <<"i32">>
VarInt == <<"VarInt">>

\* the byte (0..255) held by bits 8k+1 .. 8k+8 of a bit vector
ByteAt(bv, k) == BitsToNat(bv, 8 * k + 1, 8 * k + 8)

\* to_le_bytes: least significant byte first
to_le_bytes(bv) == Tuple([k \in 1..(Len(bv) \div 8) |-> ByteAt(bv, k - 1)])
\* to_be_bytes: most significant byte first
to_be_bytes(bv) ==
    Tuple([k \in 1..(Len(bv) \div 8) |-> ByteAt(bv, (Len(bv) \div 8) - k)])

\* from_le_bytes / from_be_bytes: the value whose bytes these are
from_le_bytes(bytes) ==
    Tuple([i \in 1..(8 * Len(bytes)) |->
             (bytes[((i - 1) \div 8) + 1] \div Pow2((i - 1) % 8)) % 2])
from_be_bytes(bytes) ==
    Tuple([i \in 1..(8 * Len(bytes)) |->
             (bytes[Len(bytes) - ((i - 1) \div 8)] \div Pow2((i - 1) % 8)) % 2])

\* the sum of the numbers ns[i], ns[i + 1], ...
RECURSIVE SumFrom(_, _)
SumFrom(ns, i) == IF i > Len(ns) THEN 0 ELSE ns[i] + SumFrom(ns, i + 1)

\* the concatenation of a sequence of sequences, in order
RECURSIVE FlattenFrom(_, _)
FlattenFrom(ss, i) == IF i > Len(ss) THEN <<>> ELSE ss[i] \o FlattenFrom(ss, i + 1)
Flatten(ss) == With(Tuple(ss), LAMBDA c : FlattenFrom(c, 1))

\* String::as_bytes as the slice [u8] the impl_as_bytes macro encodes
as_bytes(str) == Tuple([i \in 1..Len(str) |-> FromNat(8, str[i])])

(***************************************************************************)
(* VarInt (varint.rs): size and the bytes encode_to writes.                *)
(***************************************************************************)
\* num >= 0b1000_0000
AtLeast128(num) == \E i \in 8..Len(num) : num[i] = 1

\* the while loop of <VarInt as Encode>::size
RECURSIVE VarIntCount(_)
VarIntCount(num) ==
    IF num = Zero(Len(num)) THEN 0
    ELSE 1 + With(Shr(num, 7), LAMBDA n : VarIntCount(n))

\* a plausible slip: no special case for zero, whose loop counts no group
VarIntSizeOfLoop(num) == VarIntCount(num)

VarIntSize(num) == IF num = Zero(Len(num)) THEN 1 ELSE VarIntCount(num)

\* a plausible slip: the loop runs while num > 0, a final group of zero
\* follows every magnitude but 0
RECURSIVE VarIntBytesPadded(_)
VarIntBytesPadded(num) ==
    IF num = Zero(Len(num)) THEN <<0>>
    ELSE <<BitsToNat(num, 1, 7) + 128>>
            \o With(Shr(num, 7), LAMBDA n : VarIntBytesPadded(n))

\* a plausible slip: the continuation bit is set on the last byte too
RECURSIVE VarIntBytesAllContinued(_)
VarIntBytesAllContinued(num) ==
    IF AtLeast128(num)
    THEN <<BitsToNat(num, 1, 7) + 128>>
            \o With(Shr(num, 7), LAMBDA n : VarIntBytesAllContinued(n))
    ELSE <<BitsToNat(num, 1, 7) + 128>>

\* the bytes <VarInt as Encode>::encode_to hands to the writer, one per write
RECURSIVE VarIntBytes(_)
VarIntBytes(num) ==
    IF AtLeast128(num)
    THEN <<BitsToNat(num, 1, 7) + 128>>
            \o With(Shr(num, 7), LAMBDA n : VarIntBytes(n))
    ELSE <<BitsToNat(num, 1, 8)>>

(***************************************************************************)
(* Encode (encode.rs): size() and the write calls of encode_to.            *)
(* encode_to(cfg, t, v) is the sequence of buffers the call passes to      *)
(* writer.write, in call order.                                            *)
(***************************************************************************)
\* a plausible slip: the sum starts at the second element
SumSeqSkipFirst(ns) == With(Tuple(ns), LAMBDA c : SumFrom(c, 2))

\* iter().map(Encode::size).sum::<usize>()
SumSeq(ns) == With(Tuple(ns), LAMBDA c : SumFrom(c, 1))

\* the (&K, &V) items a map's iter() yields are encoded by the tuple impl
EntryType(t) == <<"Tuple", <<t[2], t[3]>>>>

RECURSIVE size(_, _)

\* a plausible slip: the base size is left out of the sum
size_calculation_no_base(ts, vs, base_size) ==
    SumSeq([i \in 1..Len(ts) |-> size(ts[i], vs[i])])

\* nimble-derive, size_calculation_expr: #base_size #(+ Encode::size(field))*
size_calculation_expr(ts, vs, base_size) ==
    base_size + SumSeq([i \in 1..Len(ts) |-> size(ts[i], vs[i])])

size(t, v) ==
    CASE t[1] \in IntTypes -> Width(t[1]) \div 8
      [] t[1] = "bool" -> 1
      [] t[1] = "char" -> 4
      [] t[1] = "Option" ->
            IF v[1] = "Some" THEN 1 + size(t[2], v[2]) ELSE 1
      [] t[1] = "Result" ->
            IF v[1] = "Ok" THEN 1 + size(t[2], v[2]) ELSE 1 + size(t[3], v[2])
      [] t[1] \in {"Vec", "BTreeSet"} ->
            8 + SumSeq([i \in 1..Len(v) |-> size(t[2], v[i])])
      [] t[1] = "BTreeMap" ->
            8 + SumSeq([i \in 1..Len(v) |-> size(EntryType(t), v[i])])
      [] t[1] = "String" -> size(<<"Vec", U8>>, as_bytes(v))
      [] t[1] = "Box" -> size(t[2], v)
      [] t[1] = "Array" -> SumSeq([i \in 1..Len(v) |-> size(t[2], v[i])])
      [] t[1] = "Tuple" -> SumSeq([i \in 1..Len(v) |-> size(t[2][i], v[i])])
      [] t[1] = "VarInt" -> VarIntSize(v)
      [] t[1] = "Struct" -> size_calculation_expr(t[2], v, 0)
      [] t[1] = "Enum" ->
            size_calculation_expr(t[2][v[1] + 1], v[2],
                                  size(<<"VarInt">>, FromNat(128, v[1])))

\* a plausible slip: the bytes go out least significant first whatever
\* the Config says
encode_primitive_native(cfg, bv) == With(bv, LAMBDA b : <<to_le_bytes(b)>>)

\* impl_primitive::encode_to: one write call carrying the whole value
encode_primitive(cfg, bv) ==
    With(bv, LAMBDA b : IF cfg = "LittleEndian" THEN <<to_le_bytes(b)>>
                        ELSE <<to_be_bytes(b)>>)

RECURSIVE encode_to(_, _, _)

\* a plausible slip: the discriminants of None and Some are swapped
encode_option_swapped(cfg, t, v) ==
    IF v[1] = "None"
    THEN encode_to(cfg, U8, FromNat(8, 1))
    ELSE encode_to(cfg, U8, FromNat(8, 0)) \o encode_to(cfg, t[2], v[2])

\* impl Encode for Option<T>
encode_option(cfg, t, v) ==
    IF v[1] = "None"
    THEN encode_to(cfg, U8, FromNat(8, 0))
    ELSE encode_to(cfg, U8, FromNat(8, 1)) \o encode_to(cfg, t[2], v[2])

\* impl Encode for core::result::Result<T, E>
encode_result(cfg, t, v) ==
    IF v[1] = "Ok"
    THEN encode_to(cfg, U8, FromNat(8, 0)) \o encode_to(cfg, t[2], v[2])
    ELSE encode_to(cfg, U8, FromNat(8, 1)) \o encode_to(cfg, t[3], v[2])

\* a plausible slip: the length goes out as a u32
encode_seq_u32(cfg, t, v) ==
    encode_to(cfg, U32, FromNat(32, Len(v)))
        \o Flatten([i \in 1..Len(v) |-> encode_to(cfg, t[2], v[i])])

\* impl_seq::encode_to and impl Encode for [T]: len as u64, then the items
encode_seq(cfg, t, v) ==
    encode_to(cfg, U64, FromNat(64, Len(v)))
        \o Flatten([i \in 1..Len(v) |-> encode_to(cfg, t[2], v[i])])

\* impl_map::encode_to: len as u64, then the (key, value) items
encode_map(cfg, t, v) ==
    encode_to(cfg, U64, FromNat(64, Len(v)))
        \o Flatten([i \in 1..Len(v) |-> encode_to(cfg, EntryType(t), v[i])])

\* a plausible slip: the array is written like a slice, behind its length
encode_fixed_arr_prefixed(cfg, t, v) ==
    encode_to(cfg, U64, FromNat(64, Len(v)))
        \o Flatten([i \in 1..Len(v) |-> encode_to(cfg, t[2], v[i])])

\* impl_fixed_arr::encode_to
encode_fixed_arr(cfg, t, v) ==
    Flatten([i \in 1..Len(v) |-> encode_to(cfg, t[2], v[i])])

\* impl_tuple::encode_to
encode_tuple(cfg, t, v) ==
    Flatten([i \in 1..Len(v) |-> encode_to(cfg, t[2][i], v[i])])

\* <VarInt as Encode>::encode_to: every byte goes through u8::encode_to
encode_varint(cfg, v) ==
    With(VarIntBytes(v),
         LAMBDA bs : Flatten([i \in 1..Len(bs) |->
                                encode_to(cfg, U8, FromNat(8, bs[i]))]))

\* a plausible slip: the fields are written last to first
bytes_encoding_reversed(cfg, ts, vs, base_expr) ==
    base_expr \o Flatten([i \in 1..Len(ts) |->
                             encode_to(cfg, ts[Len(ts) + 1 - i], vs[Len(ts) + 1 - i])])

\* nimble-derive, bytes_encoding_expr:
\* Ok(#base_expr #(+ Encode::encode_to(field, config, &mut writer).await?)*)
bytes_encoding_expr(cfg, ts, vs, base_expr) ==
    base_expr \o Flatten([i \in 1..Len(ts) |-> encode_to(cfg, ts[i], vs[i])])

\* a plausible slip: the tag counts the variants from 1
encode_enum_from_one(cfg, t, v) ==
    bytes_encoding_expr(cfg, t[2][v[1] + 1], v[2],
                        encode_to(cfg, <<"VarInt">>, FromNat(128, v[1] + 1)))

\* nimble-derive, EncodeToExpr for ExprType::Enum: the variant's index as a
\* VarInt, then the variant's fields
encode_enum(cfg, t, v) ==
    bytes_encoding_expr(cfg, t[2][v[1] + 1], v[2],
                        encode_to(cfg, <<"VarInt">>, FromNat(128, v[1])))

encode_to(cfg, t, v) ==
    CASE t[1] \in IntTypes -> encode_primitive(cfg, v)
      [] t[1] = "bool" -> encode_to(cfg, U8, FromNat(8, IF v THEN 1 ELSE 0))
      [] t[1] = "char" -> encode_to(cfg, U32, FromNat(32, v))
      [] t[1] = "Option" -> encode_option(cfg, t, v)
      [] t[1] = "Result" -> encode_result(cfg, t, v)
      [] t[1] \in {"Vec", "BTreeSet"} -> encode_seq(cfg, t, v)
      [] t[1] = "BTreeMap" -> encode_map(cfg, t, v)
      [] t[1] = "String" -> encode_to(cfg, <<"Vec", U8>>, as_bytes(v))
      [] t[1] = "Box" -> encode_to(cfg, t[2], v)
      [] t[1] = "Array" -> encode_fixed_arr(cfg, t, v)
      [] t[1] = "Tuple" -> encode_tuple(cfg, t, v)
      [] t[1] = "VarInt" -> encode_varint(cfg, v)
      [] t[1] = "Struct" -> bytes_encoding_expr(cfg, t[2], v, <<>>)
      [] t[1] = "Enum" -> encode_enum(cfg, t, v)

\* the complete encoding of v: every write accepted in full
Encoding(cfg, t, v) == Flatten(encode_to(cfg, t, v))

(***************************************************************************)
(* Decode (decode.rs).  A decode reads the slice s from offset pos and     *)
(* yields [ok, val, err, pos]: the value or the error, and the offset the  *)
(* reader is left at.                                                      *)
(***************************************************************************)
DecOk(v, pos) == [ok |-> TRUE, val |-> v, err |-> <<>>, pos |-> pos]
DecErr(e, pos) == [ok |-> FALSE, val |-> <<>>, err |-> e, pos |-> pos]

\* impl From<std::io::Error> for Error: the reader's error, wrapped
IoError(kind) == <<"IoError", kind>>

\* a plausible slip: read() instead of read_exact(), the unfilled tail of
\* the zeroed buffer is decoded as if it had been read
read_short(s, pos, n) ==
    IF pos + n <= Len(s)
    THEN DecOk(SubSeq(s, pos + 1, pos + n), pos + n)
    ELSE DecOk(SubSeq(s, pos + 1, Len(s)) \o [i \in 1..(pos + n - Len(s)) |-> 0],
               Len(s))

\* reader.read_exact(&mut bytes) on a slice reader: all n bytes, or
\* UnexpectedEof once the slice is exhausted
read_exact(s, pos, n) ==
    IF pos + n <= Len(s)
    THEN DecOk(SubSeq(s, pos + 1, pos + n), pos + n)
    ELSE DecErr(IoError("UnexpectedEof"), Len(s))

\* a plausible slip: from_be_bytes in the LittleEndian arm
decode_primitive_be(cfg, name, s, pos) ==
    LET r == read_exact(s, pos, Width(name) \div 8)
    IN  IF ~r.ok THEN r ELSE DecOk(from_be_bytes(r.val), r.pos)

\* impl_primitive::decode_from
decode_primitive(cfg, name, s, pos) ==
    LET r == read_exact(s, pos, Width(name) \div 8)
    IN  IF ~r.ok THEN r
        ELSE IF cfg = "LittleEndian"
             THEN DecOk(from_le_bytes(r.val), r.pos)
             ELSE DecOk(from_be_bytes(r.val), r.pos)

\* a plausible slip: only the upper limit is checked, surrogates pass
IsScalarUpTo(code) == FitsNat(code) /\ ToNat(code) <= 1114111

\* core::char::from_u32: a Unicode scalar value
IsScalar(code) ==
    /\ FitsNat(code)
    /\ ToNat(code) <= 1114111
    /\ ~(ToNat(code) >= 55296 /\ ToNat(code) <= 57343)

\* String::from_utf8: the validation of the standard library
RECURSIVE Utf8Valid(_, _)
Utf8Valid(b, i) ==
    LET Cont(j, lo, hi) == j <= Len(b) /\ b[j] >= lo /\ b[j] <= hi
    IN  IF i > Len(b) THEN TRUE
        ELSE IF b[i] < 128 THEN Utf8Valid(b, i + 1)
        ELSE IF b[i] >= 194 /\ b[i] <= 223
             THEN Cont(i + 1, 128, 191) /\ Utf8Valid(b, i + 2)
        ELSE IF b[i] >= 224 /\ b[i] <= 239
             THEN /\ Cont(i + 1, IF b[i] = 224 THEN 160 ELSE 128,
                                 IF b[i] = 237 THEN 159 ELSE 191)
                  /\ Cont(i + 2, 128, 191)
                  /\ Utf8Valid(b, i + 3)
        ELSE IF b[i] >= 240 /\ b[i] <= 244
             THEN /\ Cont(i + 1, IF b[i] = 240 THEN 144 ELSE 128,
                                 IF b[i] = 244 THEN 143 ELSE 191)
                  /\ Cont(i + 2, 128, 191)
                  /\ Cont(i + 3, 128, 191)
                  /\ Utf8Valid(b, i + 4)
        ELSE FALSE

\* the build's overflow checks turn an out-of-range shift or add into a
\* panic; without them the shift amount and the counter wrap
VarIntPanic == [done |-> TRUE, panic |-> TRUE, num |-> <<>>, shift_by |-> 0]

\* one iteration of the loop of <VarInt as Decode>::decode_from on a byte
VarIntStep(num, shift_by, byte, checks) ==
    IF shift_by >= 128 /\ checks THEN VarIntPanic
    ELSE LET acc == BitOr(num, Shl(FromNat(128, byte % 128), shift_by % 128))
         IN  IF byte >= 128
             THEN IF shift_by + 7 > 255 /\ checks THEN VarIntPanic
                  ELSE [done |-> FALSE, panic |-> FALSE, num |-> acc,
                        shift_by |-> (shift_by + 7) % 256]
             ELSE [done |-> TRUE, panic |-> FALSE, num |-> acc,
                   shift_by |-> shift_by]

RECURSIVE decode_from(_, _, _, _)
RECURSIVE DecodeElems(_, _, _, _, _, _)
\* the element loop of impl_seq, impl_fixed_arr and impl_tuple: the first
\* failing element ends it through the ? operator
DecodeElems(cfg, ts, s, pos, k, acc) ==
    IF k > Len(ts) THEN DecOk(acc, pos)
    ELSE With(decode_from(cfg, ts[k], s, pos),
              LAMBDA r : IF ~r.ok THEN r
                         ELSE DecodeElems(cfg, ts, s, r.pos, k + 1, Append(acc, r.val)))

\* nimble-derive, decode_bytes_expr: the fields are decoded in declared
\* order, each through ?, and the value is built from them
decode_bytes_expr(cfg, ts, s, pos) == DecodeElems(cfg, ts, s, pos, 1, <<>>)

\* a plausible slip: every discriminant other than 0 is taken as Some
decode_option_lenient(cfg, t, s, pos) ==
    LET d == decode_from(cfg, U8, s, pos)
    IN  IF ~d.ok THEN d
        ELSE IF ToNat(d.val) = 0 THEN DecOk(<<"None">>, d.pos)
        ELSE LET x == decode_from(cfg, t[2], s, d.pos)
             IN  IF x.ok THEN DecOk(<<"Some", x.val>>, x.pos) ELSE x

\* a plausible slip: the payload's error is dropped with .ok(), a payload
\* that fails to decode reads as None
decode_option_swallowed(cfg, t, s, pos) ==
    LET d == decode_from(cfg, U8, s, pos)
    IN  IF ~d.ok THEN d
        ELSE IF ToNat(d.val) = 0 THEN DecOk(<<"None">>, d.pos)
        ELSE IF ToNat(d.val) = 1
             THEN LET x == decode_from(cfg, t[2], s, d.pos)
                  IN  IF x.ok THEN DecOk(<<"Some", x.val>>, x.pos)
                      ELSE DecOk(<<"None">>, x.pos)
        ELSE DecErr(<<"InvalidEnumVariant", ToNat(d.val)>>, d.pos)

\* impl Decode for Option<T>
decode_option(cfg, t, s, pos) ==
    LET d == decode_from(cfg, U8, s, pos)
    IN  IF ~d.ok THEN d
        ELSE IF ToNat(d.val) = 0 THEN DecOk(<<"None">>, d.pos)
        ELSE IF ToNat(d.val) = 1
             THEN LET x == decode_from(cfg, t[2], s, d.pos)
                  IN  IF x.ok THEN DecOk(<<"Some", x.val>>, x.pos) ELSE x
        ELSE DecErr(<<"InvalidEnumVariant", ToNat(d.val)>>, d.pos)

\* impl Decode for core::result::Result<T, E>
decode_result(cfg, t, s, pos) ==
    LET d == decode_from(cfg, U8, s, pos)
    IN  IF ~d.ok THEN d
        ELSE IF ToNat(d.val) = 0
             THEN LET x == decode_from(cfg, t[2], s, d.pos)
                  IN  IF x.ok THEN DecOk(<<"Ok", x.val>>, x.pos) ELSE x
        ELSE IF ToNat(d.val) = 1
             THEN LET x == decode_from(cfg, t[3], s, d.pos)
                  IN  IF x.ok THEN DecOk(<<"Err", x.val>>, x.pos) ELSE x
        ELSE DecErr(<<"InvalidEnumVariant", ToNat(d.val)>>, d.pos)

\* a plausible slip: the count is read as a u32
decode_seq_u32(cfg, t, s, pos) ==
    LET l == decode_from(cfg, U32, s, pos)
    IN  IF ~l.ok THEN l
        ELSE IF ~FitsNat(l.val) \/ ToNat(l.val) > Len(s)
             THEN DecodeElems(cfg, [i \in 1..(Len(s) + 1) |-> t[2]], s, l.pos, 1, <<>>)
        ELSE DecodeElems(cfg, [i \in 1..ToNat(l.val) |-> t[2]], s, l.pos, 1, <<>>)

\* a plausible slip: the count is cast with `as usize`, its high bits dropped
decode_seq_wrapping(cfg, t, s, pos) ==
    LET l == decode_from(cfg, U64, s, pos)
    IN  IF ~l.ok THEN l
        ELSE With(SubSeq(l.val, 1, UsizeBits),
                  LAMBDA n : IF ~FitsNat(n) \/ ToNat(n) > Len(s)
                             THEN DecodeElems(cfg, [i \in 1..(Len(s) + 1) |-> t[2]],
                                              s, l.pos, 1, <<>>)
                             ELSE DecodeElems(cfg, [i \in 1..ToNat(n) |-> t[2]],
                                              s, l.pos, 1, <<>>))

\* impl_seq::decode_from: the u64 count, its conversion to usize, then that
\* many elements.  The reservation of len elements is taken to succeed; a
\* count the slice cannot satisfy runs the loop into the end of the slice.
decode_seq(cfg, t, s, pos) ==
    LET l == decode_from(cfg, U64, s, pos)
    IN  IF ~l.ok THEN l
        ELSE IF \E i \in (UsizeBits + 1)..64 : l.val[i] = 1
             THEN DecErr(<<"InvalidLength", l.val>>, l.pos)
        ELSE IF ~FitsNat(l.val) \/ ToNat(l.val) > Len(s)
             THEN DecodeElems(cfg, [i \in 1..(Len(s) + 1) |-> t[2]], s, l.pos, 1, <<>>)
        ELSE DecodeElems(cfg, [i \in 1..ToNat(l.val) |-> t[2]], s, l.pos, 1, <<>>)

\* BTreeSet::insert of an integer element into the ascending sequence of the
\* set's elements: an element already there is kept
SetInsert(set, x) ==
    IF \E i \in 1..Len(set) : set[i] = x THEN set
    ELSE LET below == SelectSeq(set, LAMBDA y : ToNat(y) < ToNat(x))
             above == SelectSeq(set, LAMBDA y : ToNat(y) > ToNat(x))
         IN  below \o <<x>> \o above

\* a plausible slip: entry(key).or_insert(value), the first value of a key
\* is kept
MapInsertKeepFirst(map, e) ==
    IF \E i \in 1..Len(map) : map[i][1] = e[1] THEN map
    ELSE LET below == SelectSeq(map, LAMBDA y : ToNat(y[1]) < ToNat(e[1]))
             above == SelectSeq(map, LAMBDA y : ToNat(y[1]) > ToNat(e[1]))
         IN  below \o <<e>> \o above

\* BTreeMap::insert(entry.0, entry.1) into the sequence of entries, ascending
\* by key: the value of a key already there is replaced
MapInsert(map, e) ==
    LET below == SelectSeq(map, LAMBDA y : ToNat(y[1]) < ToNat(e[1]))
        above == SelectSeq(map, LAMBDA y : ToNat(y[1]) > ToNat(e[1]))
    IN  below \o <<e>> \o above

RECURSIVE InsertAll(_, _, _, _)
InsertAll(kind, items, i, acc) ==
    IF i > Len(items) THEN acc
    ELSE InsertAll(kind, items, i + 1,
                   IF kind = "BTreeSet" THEN SetInsert(acc, items[i])
                   ELSE MapInsert(acc, items[i]))

\* impl_seq for BTreeSet and impl_map for BTreeMap: the items are decoded in
\* stream order and inserted one by one
decode_ordered(cfg, t, s, pos) ==
    LET r == decode_seq(cfg, IF t[1] = "BTreeMap" THEN <<"Vec", EntryType(t)>> ELSE t,
                        s, pos)
    IN  IF ~r.ok THEN r
        ELSE With(r, LAMBDA c : DecOk(InsertAll(t[1], c.val, 1, <<>>), c.pos))

\* a plausible slip: the zero check is left out
decode_non_zero_unchecked(cfg, t, s, pos) == decode_from(cfg, t[2], s, pos)

\* impl_non_zero_primitives::decode_from: the underlying integer through ?,
\* Self::new of it, NonZeroError when that is None
decode_non_zero(cfg, t, s, pos) ==
    LET r == decode_from(cfg, t[2], s, pos)
    IN  IF ~r.ok THEN r
        ELSE IF r.val = Zero(Len(r.val)) THEN DecErr(<<"NonZeroError">>, r.pos)
        ELSE DecOk(r.val, r.pos)

\* a plausible slip: the byte is compared with 1
decode_bool_is_one(cfg, s, pos) ==
    LET r == decode_from(cfg, U8, s, pos)
    IN  IF r.ok THEN DecOk(ToNat(r.val) = 1, r.pos) ELSE r

\* impl Decode for bool: the u8 through ?, then != 0
decode_bool(cfg, s, pos) ==
    LET r == decode_from(cfg, U8, s, pos)
    IN  IF r.ok THEN DecOk(ToNat(r.val) # 0, r.pos) ELSE r

\* ArrayVec::into_inner after the loop: the array when all n slots are
\* filled, PartiallyFilledArray otherwise
into_inner(r, n) ==
    IF ~r.ok THEN r
    ELSE IF Len(r.val) = n THEN r
    ELSE DecErr(<<"PartiallyFilledArray">>, r.pos)

\* a plausible slip: the loop runs over 1..N, one push short of the array
decode_fixed_arr_short(cfg, t, s, pos) ==
    into_inner(DecodeElems(cfg, [i \in 1..(t[3] - 1) |-> t[2]], s, pos, 1, <<>>), t[3])

\* impl_fixed_arr::decode_from: N element decodes, each through ?, pushed
\* to an ArrayVec, then into_inner
decode_fixed_arr(cfg, t, s, pos) ==
    into_inner(DecodeElems(cfg, [i \in 1..t[3] |-> t[2]], s, pos, 1, <<>>), t[3])

\* impl_from_bytes for String: Vec<u8>, then String::from_utf8
decode_string(cfg, s, pos) ==
    LET r == decode_from(cfg, <<"Vec", U8>>, s, pos)
    IN  IF ~r.ok THEN r
        ELSE LET b == [i \in 1..Len(r.val) |-> ToNat(r.val[i])]
             IN  IF Utf8Valid(b, 1) THEN DecOk(b, r.pos)
                 ELSE DecErr(<<"InvalidUtf8String">>, r.pos)

decode_from(cfg, t, s, pos) ==
    CASE t[1] \in IntTypes -> decode_primitive(cfg, t[1], s, pos)
      [] t[1] = "bool" -> decode_bool(cfg, s, pos)
      [] t[1] = "char" ->
            LET r == decode_from(cfg, U32, s, pos)
            IN  IF ~r.ok THEN r
                ELSE IF IsScalar(r.val) THEN DecOk(ToNat(r.val), r.pos)
                ELSE DecErr(<<"InvalidChar", r.val>>, r.pos)
      [] t[1] = "Option" -> decode_option(cfg, t, s, pos)
      [] t[1] = "Result" -> decode_result(cfg, t, s, pos)
      [] t[1] = "Vec" -> decode_seq(cfg, t, s, pos)
      [] t[1] \in {"BTreeSet", "BTreeMap"} -> decode_ordered(cfg, t, s, pos)
      [] t[1] = "String" -> decode_string(cfg, s, pos)
      [] t[1] = "Box" -> decode_from(cfg, t[2], s, pos)
      [] t[1] = "Array" -> decode_fixed_arr(cfg, t, s, pos)
      [] t[1] = "Tuple" -> DecodeElems(cfg, t[2], s, pos, 1, <<>>)
      [] t[1] = "Struct" -> decode_bytes_expr(cfg, t[2], s, pos)
      [] t[1] = "NonZero" -> decode_non_zero(cfg, t, s, pos)

\* a decode that panicked: no Result is returned
DecPanic(pos) == [ok |-> FALSE, val |-> <<>>, err |-> <<"panic">>, pos |-> pos]

\* the loop of <VarInt as Decode>::decode_from, run to its end on a slice
RECURSIVE VarIntLoop(_, _, _, _, _)
VarIntLoop(s, pos, acc, shift, chk) ==
    IF pos >= Len(s) THEN DecErr(IoError("UnexpectedEof"), Len(s))
    ELSE With(VarIntStep(acc, shift, s[pos + 1], chk),
              LAMBDA st : IF st.panic THEN DecPanic(pos + 1)
                          ELSE IF st.done THEN DecOk(st.num, pos + 1)
                          ELSE VarIntLoop(s, pos + 1, st.num, st.shift_by, chk))

\* nimble-derive, DecodeFromExpr for ExprType::Enum: the VarInt tag as a
\* u128, a match arm per declaration index, InvalidEnumVariant otherwise
decode_enum(cfg, t, s, pos, chk) ==
    With(VarIntLoop(s, pos, Zero(128), 0, chk),
         LAMBDA option :
            IF ~option.ok THEN option
            ELSE IF FitsNat(option.val) /\ ToNat(option.val) < Len(t[2])
                 THEN With(decode_bytes_expr(cfg, t[2][ToNat(option.val) + 1],
                                             s, option.pos),
                           LAMBDA f : IF f.ok
                                      THEN DecOk(<<ToNat(option.val), f.val>>, f.pos)
                                      ELSE f)
            ELSE DecErr(<<"InvalidEnumVariant", option.val>>, option.pos))

\* Config::decode_from: D::decode_from(self, reader).  A derived enum is
\* decoded at the top level only, where the build's overflow checks are known.
Config_decode_from(cfg, t, s, pos, chk) ==
    IF t[1] = "Enum" THEN decode_enum(cfg, t, s, pos, chk)
    ELSE decode_from(cfg, t, s, pos)

(***************************************************************************)
(* The values the operations are driven with.                              *)
(***************************************************************************)
MinOf(w) == Tuple([i \in 1..w |-> IF i = w THEN 1 ELSE 0])
MaxOf(w) == Tuple([i \in 1..w |-> IF i = w THEN 0 ELSE 1])
\* the value whose k-th byte is k: every byte differs
Ramp(w) == from_le_bytes([k \in 1..(w \div 8) |-> k])

IntValues(w) ==
    {FromNat(w, n) : n \in 0..3} \cup
    {Ones(w), MinOf(w), MaxOf(w), BitOr(MinOf(w), FromNat(w, 1)), Ramp(w)}

FewInts(w) == {FromNat(w, n) : n \in 1..3}

\* "", "hi", and one-, two-, three- and four-byte UTF-8 sequences
Strings == {<<>>, <<104, 105>>, <<195, 169>>, <<226, 130, 172>>,
            <<240, 159, 152, 128>>, <<104, 101, 108, 108, 111>>}
FewStrings == {<<>>, <<104, 105>>}

\* the sequences over S of length at most n
SeqsUpTo(S, n) == UNION {[1..k -> S] : k \in 0..n}

\* 2^k - 1 and 2^k for every bit position of a u128
Magnitudes ==
    {Tuple([i \in 1..128 |-> IF i <= k THEN 1 ELSE 0]) : k \in 0..128} \cup
    {Tuple([i \in 1..128 |-> IF i = k THEN 1 ELSE 0]) : k \in 1..128} \cup
    {Ramp(128)}

\* 0, 1, 127, 128, 2^14 and 2^128 - 1
FewMagnitudes ==
    {ZeroExtend(FromNat(16, n), 128) : n \in {0, 1, 127, 128, 16384}} \cup {Ones(128)}

\* the tuples whose k-th component is drawn from S[k]
RECURSIVE Product(_)
Product(S) ==
    IF S = <<>> THEN {<<>>}
    ELSE {<<x>> \o rest : x \in Head(S), rest \in Product(Tail(S))}

RECURSIVE Values(_, _)

\* the values a field of a derived type takes: 10 and 20 for the integers
FieldValues(t) ==
    IF t[1] \in IntTypes
    THEN {FromNat(Width(t[1]), 10), FromNat(Width(t[1]), 20)}
    ELSE Values(t, TRUE)

Values(t, few) ==
    CASE t[1] \in IntTypes ->
            IF few THEN FewInts(Width(t[1])) ELSE IntValues(Width(t[1]))
      [] t[1] = "bool" -> {TRUE, FALSE}
      [] t[1] = "char" ->
            IF few THEN {65, 128512} ELSE {0, 65, 55295, 57344, 128512, 1114111}
      [] t[1] = "String" -> IF few THEN FewStrings ELSE Strings
      [] t[1] = "VarInt" -> IF few THEN FewMagnitudes ELSE Magnitudes
      [] t[1] = "Option" ->
            {<<"None">>} \cup {<<"Some", x>> : x \in Values(t[2], few)}
      [] t[1] = "Result" ->
            {<<"Ok", x>> : x \in Values(t[2], few)} \cup
            {<<"Err", e>> : e \in Values(t[3], few)}
      [] t[1] = "Vec" -> SeqsUpTo(Values(t[2], TRUE), MaxLen)
      [] t[1] = "BTreeSet" ->
            {q \in SeqsUpTo(Values(t[2], TRUE), MaxLen) :
                \A i \in 1..(Len(q) - 1) : ToNat(q[i]) < ToNat(q[i + 1])}
      [] t[1] = "BTreeMap" ->
            {q \in SeqsUpTo(Values(t[2], TRUE) \X Values(t[3], TRUE), MaxLen) :
                \A i \in 1..(Len(q) - 1) : ToNat(q[i][1]) < ToNat(q[i + 1][1])}
      [] t[1] = "Box" -> Values(t[2], few)
      [] t[1] = "Array" -> [1..t[3] -> Values(t[2], TRUE)]
      [] t[1] = "Tuple" -> Product([k \in 1..Len(t[2]) |-> Values(t[2][k], TRUE)])
      [] t[1] = "Struct" -> Product([k \in 1..Len(t[2]) |-> FieldValues(t[2][k])])
      [] t[1] = "Enum" ->
            UNION {{<<i - 1, f>> :
                       f \in Product([k \in 1..Len(t[2][i]) |-> FieldValues(t[2][i][k])])} :
                   i \in 1..Len(t[2])}

\* enum MyEnum { UnitVariant, UnnamedVariant(u8, u16), NamedVariant { a: u8, b: u16 } }
MyEnum == <<"Enum", << <<>>, <<U8, U16>>, <<U8, U16>> >> >>
\* struct UnitStruct; struct UnnamedStruct(u8, u16); struct NamedStruct { a: u8, b: u16 }
UnitStruct == <<"Struct", <<>>, "Unit">>
UnnamedStruct == <<"Struct", <<U8, U16>>, "Unnamed">>
NamedStruct == <<"Struct", <<U8, U16>>, "Named">>
\* derived types over fields that are not of fixed width
Message == <<"Enum", << <<<<"String">>>>, <<>>, <<<<"Option", U8>>, I32>> >> >>
Record == <<"Struct", <<<<"String">>, <<"Option", U8>>, NamedStruct>>, "Named">>

DerivedTypes == {MyEnum, Message, UnitStruct, UnnamedStruct, NamedStruct, Record}

Types ==
    {<<n>> : n \in IntTypes} \cup
    {<<"bool">>, <<"char">>, <<"String">>, VarInt,
     <<"Option", U8>>, <<"Option", U32>>, <<"Option", <<"Option", U8>>>>,
     <<"Option", <<"String">>>>,
     <<"Result", U8, <<"u16">>>>, <<"Result", <<"String">>, I32>>,
     <<"Vec", I32>>, <<"Vec", U8>>, <<"Vec", <<"String">>>>,
     <<"Vec", <<"Option", U8>>>>,
     <<"BTreeSet", U8>>, <<"BTreeMap", U8, <<"u16">>>>,
     <<"Box", <<"u16">>>>, <<"Box", <<"String">>>>,
     <<"Array", I32, 3>>, <<"Array", U8, 2>>, <<"Array", <<"bool">>, 2>>,
     <<"Tuple", <<U8, I32>>>>, <<"Tuple", <<<<"String">>, U8, I32>>>>,
     <<"Tuple", <<<<"Option", U8>>, <<"bool">>, <<"String">>>>>>} \cup
    DerivedTypes

Configs == {"LittleEndian", "BigEndian"}

\* Endianness::new_default, behind Config::new_default and DEFAULT_CONFIG
new_default == "LittleEndian"

\* the free functions of lib.rs use DEFAULT_CONFIG, a Config's methods its
\* own; the free functions are driven with the fixed-width integers
Entries(t) == IF t[1] \in IntTypes THEN {"Config", "free"} ELSE {"Config"}
ConfigsOf(e) == IF e = "free" THEN {new_default} ELSE Configs

\* the pointer widths of the targets, for the types whose code depends on
\* it: the width of usize and isize, and the conversion of a decoded count
Targets(t, decoding) ==
    IF \/ t[1] \in {"usize", "isize"}
       \/ (t[1] = "NonZero" /\ t[2][1] \in {"usize", "isize"})
       \/ (decoding /\ t[1] \in ContainerTypes)
    THEN {32, 64} ELSE {64}

\* overflow checks on or off, for the types whose code can overflow
Builds(t) == IF t = VarInt \/ t[1] = "Enum" THEN BOOLEAN ELSE {FALSE}

\* Config::encode's own Vec, a caller's writer that takes every buffer
\* whole, a caller's writer that may take only part of a buffer, and a
\* caller's writer whose transport may refuse a write
Writers == {"buffer", "full", "short", "broken"}

\* the numbers of bytes one write call of the writer may accept: a short
\* write is driven with its smallest count, a single byte
Accepts(w, buf) == IF w = "short" THEN {1, Len(buf)} ELSE {Len(buf)}

\* the outcomes of writer.write(buf): Ok(n), or the error of the transport
WriteOutcomes(w, buf) ==
    {<<"Ok", n>> : n \in Accepts(w, buf)} \cup
    (IF w = "broken" THEN {<<"Err", "BrokenPipe">>} ELSE {})

\* slices offered to decode: encodings cut short, and Option/Result
\* payloads behind a discriminant other than 0 and 1
Truncated(cfg, t) ==
    UNION {{SubSeq(e, 1, k) : k \in 0..(Len(e) - 1)} :
              e \in {Encoding(cfg, t, v) : v \in Values(t, TRUE)}}

BadTags == {2, 3, 128, 255}

Mistagged(cfg, t) ==
    IF t[1] \in {"Option", "Result"}
    THEN {<<d>> \o tail : d \in BadTags,
                          tail \in {<<>>} \cup {Encoding(cfg, t[2], x) : x \in Values(t[2], TRUE)}}
    ELSE {}

\* runs of continuation bytes, ended by a final byte or by the end of the slice
ContinuationBytes == {128, 129, 255}
FinalBytes == {<<>>, <<0>>, <<1>>, <<127>>}
VarIntInputs ==
    {[i \in 1..k |-> c] \o f :
        k \in 0..MaxContinuation, c \in ContinuationBytes, f \in FinalBytes}

\* tags of a derived enum of n variants: the first values past the last
\* variant, tags of several bytes, tags padded with a zero group, and runs
\* that carry more than the 128 bits of the accumulator; then a payload
TagRuns(n) ==
    {<<n>>, <<n + 1>>, <<127>>, <<128, 1>>, <<255, 255, 3>>, <<128 + n, 0>>,
     <<129, 0>>} \cup
    {[i \in 1..(128 \div 7) |-> 128] \o f : f \in {<<1>>, <<2>>, <<4>>}} \cup
    {[i \in 1..(128 \div 7 + 1) |-> 128] \o <<1>>}

EnumTagInputs(t) ==
    IF t[1] = "Enum"
    THEN {tag \o payload : tag \in TagRuns(Len(t[2])),
                           payload \in {<<>>, <<10, 20, 0>>}}
    ELSE {}

\* NonZeroU8 ... NonZeroIsize: Decode only (impl_non_zero_primitives)
NonZeroTypes == {<<"NonZero", <<n>>>> : n \in IntTypes}

\* the encodings of the underlying integers, zero among them, whole and cut
NonZeroInputs(cfg, t) ==
    IF t[1] = "NonZero"
    THEN UNION {{SubSeq(e, 1, k) : k \in 0..Len(e)} :
                   e \in {Encoding(cfg, t[2], v) : v \in IntValues(Width(t[2][1]))}}
    ELSE {}

\* 32-bit values at the edges of the Unicode scalar values: the surrogates
\* 0xD800 and 0xDFFF and their neighbours, 0x10FFFF and 0x110000, and values
\* with the high bits set
CharCodes ==
    {FromNat(32, n) : n \in {55295, 55296, 56000, 57343, 57344, 1114111, 1114112}}
        \cup {MinOf(32), Ones(32)}

CharInputs(cfg, t) ==
    IF t[1] = "char" THEN {Encoding(cfg, U32, c) : c \in CharCodes} ELSE {}

\* counts that a 32-bit usize cannot hold, then nothing or a few bytes
HugeCounts ==
    {Tuple([i \in 1..64 |-> IF i = 33 THEN 1 ELSE 0]),
     Tuple([i \in 1..64 |-> IF i \in {1, 33} THEN 1 ELSE 0]),
     MinOf(64), Ones(64)}

HugeCountInputs(cfg, t) ==
    IF t[1] \in ContainerTypes /\ UsizeBits < 64
    THEN {Encoding(cfg, U64, c) \o payload :
             c \in HugeCounts, payload \in {<<>>, <<1, 2, 3, 4, 5, 6, 7, 8, 9>>}}
    ELSE {}

\* the types whose decode calls the decode of another type
Composite ==
    {"Option", "Result", "Vec", "BTreeSet", "BTreeMap", "String", "Box", "Array",
     "Tuple", "Struct"}

\* the longest encoding that is offered with a byte overwritten
MaxCorrupted == 12

\* encodings with one byte overwritten by 0xFF: a discriminant that is
\* neither 0 nor 1, a byte no UTF-8 sequence holds, a count too large
Corrupted(cfg, t) ==
    IF t[1] \in Composite
    THEN UNION {{[i \in 1..Len(e) |-> IF i = k THEN 255 ELSE e[i]] : k \in 1..Len(e)} :
                   e \in {x \in {Encoding(cfg, t, v) : v \in Values(t, TRUE)} :
                              Len(x) <= MaxCorrupted}}
    ELSE {}

\* streams of a set or a map that may repeat a key: the encodings of the
\* sequences of up to MaxLen entries over two keys and two values
Repeating(cfg, t) ==
    IF t[1] = "BTreeSet"
    THEN {Encoding(cfg, <<"Vec", t[2]>>, q) :
             q \in SeqsUpTo({FromNat(Width(t[2][1]), n) : n \in 1..2}, MaxLen)}
    ELSE IF t[1] = "BTreeMap"
    THEN {Encoding(cfg, <<"Vec", EntryType(t)>>, q) :
             q \in SeqsUpTo({FromNat(Width(t[2][1]), n) : n \in 1..2}
                               \X {FromNat(Width(t[3][1]), n) : n \in 1..2}, MaxLen)}
    ELSE {}

\* every value of the byte a bool is decoded from
BoolInputs(t) == IF t[1] = "bool" THEN {<<b>> : b \in 0..255} ELSE {}

Inputs(cfg, t) ==
    IF t = VarInt THEN VarIntInputs
    ELSE IF t[1] = "NonZero" THEN NonZeroInputs(cfg, t)
    ELSE Truncated(cfg, t) \cup Mistagged(cfg, t) \cup EnumTagInputs(t)
            \cup CharInputs(cfg, t) \cup HugeCountInputs(cfg, t)
            \cup Corrupted(cfg, t) \cup BoolInputs(t) \cup Repeating(cfg, t)

SignedTypes == {"i8", "i16", "i32", "i64", "i128", "isize"}

\* every value of an 8-bit type; the values around 0, MIN and MAX of the others
ZigZagValues(w) ==
    IF w = 8 THEN {FromNat(8, n) : n \in 0..255}
    ELSE {FromNat(w, n) : n \in 0..4} \cup
         {BitXor(Ones(w), FromNat(w, n)) : n \in 0..4} \cup
         {MinOf(w), BitOr(MinOf(w), FromNat(w, 1)), MaxOf(w),
          BitXor(MaxOf(w), FromNat(w, 1)), Ramp(w)}

(***************************************************************************)
(* The state: one call of the codec by a caller that owns the stream.      *)
(***************************************************************************)
VARIABLES
    entry,      \* the entry point: a Config's methods or the free functions
    decoded,    \* the values decoded so far from a stream of several values
    config,     \* Config.endianness
    checks,     \* whether the build has overflow checks (debug) or not
    ty,         \* the type encoded or decoded
    value,      \* the value handed to encode, <<>> when the input is a slice
    writer,     \* the kind of writer encode_to is given
    pc,         \* where the caller is
    wpos,       \* encode_to: the index of the next write call
    encoded,    \* encode_to: the sum of the counts the writes returned
    stream,     \* the bytes on the stream
    cursor,     \* the reader's offset into the stream
    result,     \* what the call returned
    num,        \* VarInt::decode_from: the accumulator
    shift_by,   \* VarInt::decode_from: the shift counter (u8)
    zz,         \* ZigZag: the intermediate value
    calls       \* two calls in flight at once, each on a stream of its own

vars == <<calls, target_pointer_width, entry, decoded, config, checks, ty, value, writer, pc, wpos, encoded, stream,
          cursor, result, num, shift_by, zz>>

Pending == <<"pending">>

InitRegs ==
    /\ decoded = <<>>
    /\ wpos = 1
    /\ encoded = 0
    /\ cursor = 0
    /\ result = Pending
    /\ num = Zero(128)
    /\ shift_by = 0
    /\ zz = <<>>

\* a caller about to encode a value; a writer that may refuse a write is
\* driven with the few values of each type, and a VarInt goes to a caller's
\* writer with the few magnitudes
InitEncode ==
    /\ ty \in Types
    /\ entry \in Entries(ty)
    /\ config \in ConfigsOf(entry)
    /\ target_pointer_width \in Targets(ty, FALSE)
    /\ writer \in Writers
    /\ value \in Values(ty, writer = "broken" \/ (ty = VarInt /\ writer # "buffer"))
    /\ checks \in Builds(ty)
    /\ pc = "start"
    /\ stream = <<>>
    /\ InitRegs

\* a caller about to decode a slice it received
InitInput ==
    /\ ty \in Types \cup NonZeroTypes
    /\ entry \in Entries(ty)
    /\ config \in ConfigsOf(entry)
    /\ target_pointer_width \in Targets(ty, TRUE)
    /\ stream \in Inputs(config, ty)
    /\ checks \in Builds(ty)
    /\ value = <<>>
    /\ writer = "buffer"
    /\ pc = "input"
    /\ InitRegs

\* a caller about to convert an integer with ZigZag
InitZigZag ==
    /\ entry = "free"
    /\ config = new_default
    /\ checks = FALSE
    /\ ty \in {<<n>> : n \in SignedTypes}
    /\ target_pointer_width \in Targets(ty, FALSE)
    /\ value \in ZigZagValues(Width(ty[1]))
    /\ writer = "buffer"
    /\ pc \in {"zz_start", "zu_start"}
    /\ stream = <<>>
    /\ InitRegs

\* a caller about to convert an integer to a VarInt and back, or a
\* magnitude to an integer
InitConvert ==
    /\ entry = "free"
    /\ config = new_default
    /\ checks = FALSE
    /\ ty \in {<<n>> : n \in IntTypes}
    /\ target_pointer_width \in Targets(ty, FALSE)
    /\ \/ pc = "cv_start" /\ value \in ZigZagValues(Width(ty[1]))
       \/ pc = "vc_start" /\ value \in Magnitudes
    /\ writer = "buffer"
    /\ stream = <<>>
    /\ InitRegs

Init ==
    /\ calls = <<>>
    /\ (InitEncode \/ InitInput \/ InitZigZag \/ InitConvert)

(***************************************************************************)
(* Config::encode / Config::encode_to: one step per write call, each an    *)
(* await of the writer.                                                    *)
(***************************************************************************)
\* a value that makes no write call (a unit struct) returns Ok(0) at once
EncodeCall ==
    /\ pc = "start"
    /\ wpos' = 1
    /\ encoded' = 0
    /\ IF encode_to(config, ty, value) = <<>>
       THEN pc' = "encoded" /\ result' = <<"Ok", 0>>
       ELSE pc' = "encoding" /\ result' = result
    /\ UNCHANGED <<calls, target_pointer_width, entry, decoded,
                   config, checks, ty, value, writer, stream, cursor,
                   num, shift_by, zz>>

\* a plausible slip: the outcome is taken with unwrap_or_default(), a
\* refused write counts as a write of no bytes
unwrap_or_default(o) == IF o[1] = "Err" THEN <<"Ok", 0>> ELSE o

\* .map_err(Into::into) on the outcome of a write: From<std::io::Error>
map_err_into(o) == IF o[1] = "Err" THEN <<"Err", IoError(o[2])>> ELSE o

\* writer.write(buf): the writer takes n bytes and returns Ok(n), or refuses
\* and the ? operator ends encode_to with the error; after the last write
\* encode_to returns Ok(encoded)
WriteStep ==
    /\ pc = "encoding"
    /\ \E writes \in {encode_to(config, ty, value)} :
       \E o \in {map_err_into(x) : x \in WriteOutcomes(writer, writes[wpos])} :
          IF o[1] = "Err"
          THEN /\ pc' = "failed"
               /\ result' = o
               /\ UNCHANGED <<stream, encoded, wpos>>
          ELSE /\ stream' = stream \o SubSeq(writes[wpos], 1, o[2])
               /\ encoded' = encoded + o[2]
               /\ IF wpos = Len(writes)
                  THEN /\ pc' = "encoded"
                       /\ result' = <<"Ok", encoded + o[2]>>
                       /\ wpos' = wpos
                  ELSE /\ pc' = "encoding"
                       /\ result' = result
                       /\ wpos' = wpos + 1
    /\ UNCHANGED <<calls, target_pointer_width, entry, decoded,
                   config, checks, ty, value, writer, cursor, num, shift_by, zz>>

(***************************************************************************)
(* Config::decode on the bytes Config::encode returned, and on a slice.    *)
(***************************************************************************)
Returned(r) ==
    IF r.ok THEN <<"Ok", r.val>>
    ELSE IF r.err = <<"panic">> THEN <<"panic">>
    ELSE <<"Err", r.err>>

DecodeEncoded ==
    /\ pc = "encoded"
    /\ writer = "buffer"
    /\ ty # VarInt
    /\ \E r \in {Config_decode_from(config, ty, stream, 0, checks)} :
           /\ result' = Returned(r)
           /\ cursor' = r.pos
    /\ pc' = "decoded"
    /\ UNCHANGED <<calls, target_pointer_width, entry, decoded,
                   config, checks, ty, value, writer, wpos, encoded, stream,
                   num, shift_by, zz>>

DecodeInput ==
    /\ pc = "input"
    /\ ty # VarInt
    /\ \E r \in {Config_decode_from(config, ty, stream, 0, checks)} :
           /\ result' = Returned(r)
           /\ cursor' = r.pos
    /\ pc' = "input_decoded"
    /\ UNCHANGED <<calls, target_pointer_width, entry, decoded,
                   config, checks, ty, value, writer, wpos, encoded, stream,
                   num, shift_by, zz>>

(***************************************************************************)
(* Several values on one stream: the components of a tuple are written one *)
(* after another by impl_tuple::encode_to; the caller decodes them one by  *)
(* one from the same reader, each call starting where the last one ended.  *)
(***************************************************************************)
DecodeNext ==
    /\ pc \in {"encoded", "seq"}
    /\ writer = "buffer"
    /\ ty[1] = "Tuple"
    /\ \E r \in {decode_from(config, ty[2][Len(decoded) + 1], stream, cursor)} :
          /\ cursor' = r.pos
          /\ IF r.ok
             THEN /\ decoded' = Append(decoded, r.val)
                  /\ IF Len(decoded) + 1 = Len(ty[2])
                     THEN pc' = "seq_done" /\ result' = <<"Ok", Append(decoded, r.val)>>
                     ELSE pc' = "seq" /\ result' = result
             ELSE /\ decoded' = decoded
                  /\ pc' = "seq_done"
                  /\ result' = Returned(r)
    /\ UNCHANGED <<calls, target_pointer_width, entry, config, checks, ty, value, writer,
                   wpos, encoded, stream, num, shift_by, zz>>

(***************************************************************************)
(* <VarInt as Decode>::decode_from: one step per byte read.                *)
(***************************************************************************)
VarIntDecodeCall ==
    /\ pc \in {"encoded", "input"}
    /\ writer = "buffer"
    /\ ty = VarInt
    /\ pc' = "vi_loop"
    /\ num' = Zero(128)
    /\ shift_by' = 0
    /\ cursor' = 0
    /\ UNCHANGED <<calls, target_pointer_width, entry, decoded,
                   config, checks, ty, value, writer, wpos, encoded, stream,
                   result, zz>>

VarIntReadByte ==
    /\ pc = "vi_loop"
    /\ IF cursor >= Len(stream)
       THEN /\ result' = <<"Err", IoError("UnexpectedEof")>>
            /\ pc' = "vi_done"
            /\ UNCHANGED <<cursor, num, shift_by>>
       ELSE \E st \in {VarIntStep(num, shift_by, stream[cursor + 1], checks)} :
                /\ cursor' = cursor + 1
                /\ IF st.panic
                   THEN /\ result' = <<"panic">>
                        /\ pc' = "vi_done"
                        /\ UNCHANGED <<num, shift_by>>
                   ELSE /\ num' = st.num
                        /\ shift_by' = st.shift_by
                        /\ pc' = IF st.done THEN "vi_done" ELSE "vi_loop"
                        /\ result' = IF st.done THEN <<"Ok", st.num>> ELSE result
    /\ UNCHANGED <<calls, target_pointer_width, entry, decoded,
                   config, checks, ty, value, writer, wpos, encoded, stream, zz>>

(***************************************************************************)
(* ZigZag: encode then decode a signed value, decode then encode an        *)
(* unsigned one.                                                           *)
(***************************************************************************)
EncodeZigZag ==
    /\ pc \in {"zz_start", "zu_decoded"}
    /\ IF pc = "zz_start"
       THEN /\ zz' = encode_zigzag(value)
            /\ pc' = "zz_encoded"
            /\ result' = result
       ELSE /\ result' = <<"Ok", encode_zigzag(zz)>>
            /\ pc' = "zu_done"
            /\ zz' = zz
    /\ UNCHANGED <<calls, target_pointer_width, entry, decoded,
                   config, checks, ty, value, writer, wpos, encoded, stream,
                   cursor, num, shift_by>>

DecodeZigZag ==
    /\ pc \in {"zu_start", "zz_encoded"}
    /\ IF pc = "zu_start"
       THEN /\ zz' = decode_zigzag(value)
            /\ pc' = "zu_decoded"
            /\ result' = result
       ELSE /\ result' = <<"Ok", decode_zigzag(zz)>>
            /\ pc' = "zz_done"
            /\ zz' = zz
    /\ UNCHANGED <<calls, target_pointer_width, entry, decoded,
                   config, checks, ty, value, writer, wpos, encoded, stream,
                   cursor, num, shift_by>>

(***************************************************************************)
(* VarInt::from(x) and T::try_from(varint).                                *)
(***************************************************************************)
ToVarInt ==
    /\ pc = "cv_start"
    /\ zz' = VarInt_from(ty[1], value)
    /\ pc' = "cv_varint"
    /\ UNCHANGED <<calls, target_pointer_width, entry, decoded,
                   config, checks, ty, value, writer, wpos, encoded, stream,
                   cursor, result, num, shift_by>>

FromVarInt ==
    /\ pc \in {"cv_varint", "vc_start"}
    /\ result' = VarInt_try_into(ty[1], Width(ty[1]),
                                 IF pc = "vc_start" THEN value ELSE zz)
    /\ pc' = IF pc = "vc_start" THEN "vc_done" ELSE "cv_done"
    /\ UNCHANGED <<calls, target_pointer_width, entry, decoded,
                   config, checks, ty, value, writer, wpos, encoded, stream,
                   cursor, num, shift_by, zz>>

Next ==
    \/ ToVarInt
    \/ FromVarInt
    \/ EncodeCall
    \/ WriteStep
    \/ DecodeEncoded
    \/ DecodeInput
    \/ DecodeNext
    \/ VarIntDecodeCall
    \/ VarIntReadByte
    \/ EncodeZigZag
    \/ DecodeZigZag

Spec == Init /\ [][Next]_vars

(***************************************************************************)
(* Two calls in flight at once, each on a stream of its own, their awaits  *)
(* interleaved by the executor: an encode_to, one step per write call, or  *)
(* a VarInt decode_from, one step per byte read.  The calls share the      *)
(* Config, which they only read.                                           *)
(***************************************************************************)
\* a call that has not been polled yet: what the caller passed, and the
\* locals of the future
NewCall(op, t, v, s) ==
    [op |-> op, ty |-> t, value |-> v, stream |-> s, cursor |-> 0, wpos |-> 1,
     encoded |-> 0, num |-> Zero(128), shift_by |-> 0, result |-> Pending,
     polls |-> 0, done |-> FALSE]

\* one poll of an encode_to call up to its next await: the next write call
\* on a writer that takes the buffer whole
PollEncode(cfg, c) ==
    With(encode_to(cfg, c.ty, c.value),
         LAMBDA writes :
            IF writes = <<>>
            THEN [c EXCEPT !.result = <<"Ok", 0>>, !.done = TRUE, !.polls = @ + 1]
            ELSE With(c.encoded + Len(writes[c.wpos]),
                      LAMBDA n :
                         IF c.wpos = Len(writes)
                         THEN [c EXCEPT !.stream = @ \o writes[c.wpos], !.encoded = n,
                                        !.result = <<"Ok", n>>, !.done = TRUE,
                                        !.polls = @ + 1]
                         ELSE [c EXCEPT !.stream = @ \o writes[c.wpos], !.encoded = n,
                                        !.wpos = @ + 1, !.polls = @ + 1]))

\* one poll of a VarInt decode_from call: the next byte read
PollDecode(c, chk) ==
    IF c.cursor >= Len(c.stream)
    THEN [c EXCEPT !.result = <<"Err", IoError("UnexpectedEof")>>, !.done = TRUE,
                   !.polls = @ + 1]
    ELSE With(VarIntStep(c.num, c.shift_by, c.stream[c.cursor + 1], chk),
              LAMBDA st :
                 IF st.panic
                 THEN [c EXCEPT !.cursor = @ + 1, !.result = <<"panic">>,
                                !.done = TRUE, !.polls = @ + 1]
                 ELSE [c EXCEPT !.cursor = @ + 1, !.num = st.num,
                                !.shift_by = st.shift_by,
                                !.result = IF st.done THEN <<"Ok", st.num>> ELSE @,
                                !.done = st.done, !.polls = @ + 1])

Poll(cfg, c, chk) ==
    IF c.op = "encode_to" THEN PollEncode(cfg, c) ELSE PollDecode(c, chk)

\* a plausible slip: the accumulator and the shift counter are statics, the
\* second call works on those of the first
FrameStatic(cs, i) == [cs[i] EXCEPT !.num = cs[1].num, !.shift_by = cs[1].shift_by]

\* the state a poll of call i works on: `let mut` locals of its own future
\* and the reader or writer it was given
Frame(cs, i) == cs[i]

\* the calls the pair is drawn from
PairCalls ==
    {NewCall("encode_to", <<"Tuple", <<U8, I32>>>>, <<FromNat(8, a), FromNat(32, b)>>, <<>>) :
        a \in {1, 2}, b \in {1, 3}}
    \cup {NewCall("encode_to", <<"Vec", U8>>, [k \in 1..n |-> FromNat(8, k)], <<>>) :
             n \in 0..2}
    \cup {NewCall("decode_from", VarInt, <<>>, s) :
             s \in {<<>>, <<0>>, <<128, 1>>, <<255, 255, 3>>, <<129, 128>>,
                    <<128, 128, 0>>}}

InitPair ==
    /\ calls \in {<<a, b>> : a \in PairCalls, b \in PairCalls}
    /\ config \in Configs
    /\ checks \in BOOLEAN
    /\ entry = "Config"
    /\ target_pointer_width = 64
    /\ ty = VarInt
    /\ value = <<>>
    /\ writer = "full"
    /\ pc = "pair"
    /\ stream = <<>>
    /\ InitRegs

\* the executor polls one of the two calls
Step(i) ==
    /\ pc = "pair"
    /\ ~calls[i].done
    /\ calls' = [calls EXCEPT ![i] = Poll(config, Frame(calls, i), checks)]
    /\ UNCHANGED <<target_pointer_width, entry, decoded, config, checks, ty, value,
                   writer, pc, wpos, encoded, stream, cursor, result, num, shift_by, zz>>

NextPair == \E i \in 1..2 : Step(i)

SpecPair == InitPair /\ [][NextPair]_vars

(***************************************************************************)
(* The claims.                                                             *)
(***************************************************************************)
One(w) == FromNat(w, 1)
IoErr(r) == r[1] = "Err" /\ r[2][1] = "IoError"

\* C1: round trip.  Decoding the bytes Config::encode returned for a value
\* v of a supported type, as that type and with the same Config, returns
\* Ok(v).
C1_RoundTrip ==
    pc = "decoded" => result = <<"Ok", value>>

C1_Witness ==
    /\ pc = "decoded"
    /\ config = "BigEndian"
    /\ ty = <<"Tuple", <<<<"String">>, U8, I32>>>>
    /\ value[1] = <<104, 105>>
    /\ result = <<"Ok", value>>

\* C2: size agreement.  The byte vector Config::encode returns for a value
\* has exactly size() bytes.
C2_SizeAgreement ==
    (pc \in {"encoded", "decoded"} /\ writer = "buffer")
        => Len(stream) = size(ty, value)

C2_Witness ==
    /\ pc = "encoded"
    /\ writer = "buffer"
    /\ ty = <<"Vec", <<"String">>>>
    /\ Len(value) = 2
    /\ Len(stream) = size(ty, value)
    /\ Len(stream) > 8

\* C3: encode_to on a writer that never fails, also one that takes only
\* part of a buffer in a write call, returns Ok(size()) and has written
\* exactly the complete encoding.
C3_EncodeToWritesAll ==
    pc = "encoded"
        => /\ result = <<"Ok", size(ty, value)>>
           /\ stream = Encoding(config, ty, value)

\* C4: VarInt is written base-128, low 7 bits first, the continuation bit
\* set on every byte but the last (0 is [0x00], 127 is [0x7F], 128 is
\* [0x80, 0x01]), and decoding the encoding of a magnitude returns it.
C4_VarIntRoundTrip ==
    /\ (ty = VarInt /\ value # <<>> /\ writer # "short"
            /\ pc \in {"encoded", "vi_loop", "vi_done"})
          => /\ \A i \in 1..Len(stream) :
                   /\ stream[i] % 128 = BitsToNat(value, 7 * (i - 1) + 1,
                                                  IF 7 * i > 128 THEN 128 ELSE 7 * i)
                   /\ (stream[i] >= 128) = (i < Len(stream))
             /\ \A i \in 1..128 : value[i] = 1 => i <= 7 * Len(stream)
             /\ (value = Zero(128) => stream = <<0>>)
             /\ (value = FromNat(128, 127) => stream = <<127>>)
             /\ (value = FromNat(128, 128) => stream = <<128, 1>>)
    /\ (pc = "vi_done" /\ value # <<>>) => result = <<"Ok", value>>

C4_Witness ==
    /\ pc = "vi_done"
    /\ value = Ones(128)
    /\ Len(stream) = 19
    /\ result = <<"Ok", value>>

\* C5: VarInt::decode_from ends a run of continuation bytes longer than a
\* u128 can hold with an error from a maximum-shift guard; it never panics
\* and its shift counter never reaches 128.
C5_ShiftGuard ==
    pc \in {"vi_loop", "vi_done"}
        => /\ result # <<"panic">>
           /\ shift_by < 128
           /\ (pc = "vi_done" /\ cursor > 19) => result[1] = "Err"

\* C6: ZigZag.  encode_zigzag maps 0, -1, 1, -2, 2 to 0, 1, 2, 3, 4, MIN+1
\* to UMAX-2, MAX to UMAX-1 and MIN to UMAX; decode_zigzag inverts it on
\* every signed value, and encode_zigzag inverts decode_zigzag on every
\* unsigned value.
C6_ZigZag ==
    LET w == Len(value)
        Minus(n) == BitXor(Ones(w), FromNat(w, n - 1))
    IN  /\ pc \in {"zz_encoded", "zz_done"} =>
              /\ value = Zero(w) => zz = Zero(w)
              /\ value = Minus(1) => zz = One(w)
              /\ value = One(w) => zz = FromNat(w, 2)
              /\ value = Minus(2) => zz = FromNat(w, 3)
              /\ value = FromNat(w, 2) => zz = FromNat(w, 4)
              /\ value = BitOr(MinOf(w), One(w)) => zz = BitXor(Ones(w), FromNat(w, 2))
              /\ value = MaxOf(w) => zz = BitXor(Ones(w), One(w))
              /\ value = MinOf(w) => zz = Ones(w)
        /\ pc = "zz_done" => result = <<"Ok", value>>
        /\ pc = "zu_done" => result = <<"Ok", value>>

C6_Witness ==
    /\ pc = "zz_done"
    /\ ty = <<"i128">>
    /\ value = MinOf(128)
    /\ zz = Ones(128)
    /\ result = <<"Ok", value>>

\* C7: Option wire format.  None is the single byte 0x00; Some(x) is 0x01
\* followed by the encoding of x; size() is 1 and 1 + x.size().
C7_OptionFormat ==
    (pc = "encoded" /\ writer # "short" /\ ty[1] = "Option")
        => IF value = <<"None">>
           THEN stream = <<0>> /\ size(ty, value) = 1
           ELSE /\ stream = <<1>> \o Encoding(config, ty[2], value[2])
                /\ size(ty, value) = 1 + size(ty[2], value[2])

C7_Witness ==
    /\ pc = "encoded"
    /\ writer = "buffer"
    /\ ty = <<"Option", U32>>
    /\ value = <<"Some", Ramp(32)>>
    /\ stream = <<1, 1, 2, 3, 4>>

\* C8: an Option or Result whose discriminant byte d is neither 0 nor 1
\* decodes to Err(InvalidEnumVariant(d)), and nothing after the
\* discriminant is read.
C8_InvalidDiscriminant ==
    (pc = "input_decoded" /\ ty[1] \in {"Option", "Result"}
        /\ Len(stream) >= 1 /\ stream[1] \notin {0, 1})
        => /\ result = <<"Err", <<"InvalidEnumVariant", stream[1]>>>>
           /\ cursor = 1

C8_Witness ==
    /\ pc = "input_decoded"
    /\ ty = <<"Option", U32>>
    /\ Len(stream) = 5
    /\ stream[1] = 2
    /\ result = <<"Err", <<"InvalidEnumVariant", 2>>>>
    /\ cursor = 1

\* C9: a fixed-width integer of w bytes decoded from a slice of fewer than
\* w bytes is Err(IoError), never a value.
C9_TruncatedPrimitive ==
    (pc = "input_decoded" /\ ty[1] \in IntTypes
        /\ Len(stream) < Width(ty[1]) \div 8)
        => IoErr(result)

C9_Witness ==
    /\ pc = "input_decoded"
    /\ ty = I32
    /\ Len(stream) = 2
    /\ IoErr(result)

\* C10: a fixed-size array is the encodings of its elements in index order
\* with no length prefix ([1, 2, 3] as [i32; 3] is 12 bytes), and decoding
\* those bytes returns the array.
C10_FixedArray ==
    /\ (pc \in {"encoded", "decoded"} /\ writer # "short" /\ ty[1] = "Array")
          => /\ stream = Flatten([i \in 1..ty[3] |->
                                    Encoding(config, ty[2], value[i])])
             /\ Len(stream) = ty[3] * size(ty[2], value[1])
             /\ (ty = <<"Array", I32, 3>> /\ config = "LittleEndian"
                   /\ value = <<One(32), FromNat(32, 2), FromNat(32, 3)>>)
                  => stream = <<1, 0, 0, 0, 2, 0, 0, 0, 3, 0, 0, 0>>
    /\ (pc = "decoded" /\ ty[1] = "Array") => result = <<"Ok", value>>

C10_Witness ==
    /\ pc = "decoded"
    /\ ty = <<"Array", I32, 3>>
    /\ value = <<One(32), FromNat(32, 2), FromNat(32, 3)>>
    /\ Len(stream) = 12
    /\ result = <<"Ok", value>>

\* the encodings of the fields vs of types ts, one after another
FieldEncodings(cfg, ts, vs) ==
    Flatten([i \in 1..Len(ts) |-> Encoding(cfg, ts[i], vs[i])])

\* C11: for MyEnum, size() is 4 for UnitVariant and 7 for
\* UnnamedVariant(10, 20) and NamedVariant { a: 10, b: 20 }, a 4-byte tag
\* plus the sizes of the fields, and encode(v) has size() bytes.
C11_EnumSize ==
    (pc = "encoded" /\ writer = "buffer" /\ ty = MyEnum)
        => /\ size(ty, value)
                 = 4 + SumSeq([i \in 1..Len(value[2]) |->
                                 size(ty[2][value[1] + 1][i], value[2][i])])
           /\ value = <<0, <<>>>> => size(ty, value) = 4
           /\ value = <<1, <<FromNat(8, 10), FromNat(16, 20)>>>> => size(ty, value) = 7
           /\ value = <<2, <<FromNat(8, 10), FromNat(16, 20)>>>> => size(ty, value) = 7
           /\ Len(stream) = size(ty, value)

\* C12: a derived enum is written as the tag of the value's variant, its
\* 0-based declaration index (a VarInt: one byte for an index below 128),
\* then the variant's fields in declared order; decoding reads the tag,
\* takes the variant of that index and its fields in the same order, and
\* returns the same variant with the same field values.
C12_EnumRoundTrip ==
    /\ (pc \in {"encoded", "decoded"} /\ writer # "short" /\ ty[1] = "Enum")
          => stream = <<value[1]>>
                        \o FieldEncodings(config, ty[2][value[1] + 1], value[2])
    /\ (pc = "decoded" /\ ty[1] = "Enum")
          => result = <<"Ok", value>> /\ cursor = Len(stream)

C12_Witness ==
    /\ pc = "decoded"
    /\ ty = MyEnum
    /\ config = "LittleEndian"
    /\ value = <<2, <<FromNat(8, 10), FromNat(16, 20)>>>>
    /\ stream = <<2, 10, 20, 0>>
    /\ result = <<"Ok", value>>

\* the tag a slice starts with: the bytes up to the first one without the
\* continuation bit, seven bits of the value each, low bits first
HasTag(s) == \E k \in 1..Len(s) : s[k] < 128
TagLen(s) == CHOOSE k \in 1..Len(s) : s[k] < 128 /\ \A j \in 1..(k - 1) : s[j] >= 128
TagBit(s, k) == (s[((k - 1) \div 7) + 1] \div Pow2((k - 1) % 7)) % 2
\* the tag's value is n or greater, n below 128
TagAtLeast(s, n) ==
    s[1] % 128 >= n \/ \E i \in 2..TagLen(s) : s[i] % 128 # 0

\* C13: a derived enum of N variants decoded from a slice whose tag value
\* is N or greater is Err(InvalidEnumVariant) carrying exactly that tag
\* value: no variant is built and no bit of the tag is dropped.
C13_InvalidEnumTag ==
    (pc = "input_decoded" /\ ty[1] = "Enum" /\ HasTag(stream)
        /\ TagAtLeast(stream, Len(ty[2])))
        => /\ result[1] = "Err"
           /\ result[2][1] = "InvalidEnumVariant"
           /\ \A k \in 1..(7 * TagLen(stream)) :
                 TagBit(stream, k) = IF k <= 128 THEN result[2][2][k] ELSE 0
           /\ \A k \in (7 * TagLen(stream) + 1)..128 : result[2][2][k] = 0

\* C14: a derived struct has the size of its fields together (3 for u8
\* and u16, 0 for a unit struct), is written as its fields in declared
\* order with no tag, prefix or padding (nothing for a unit struct), and is
\* decoded from those bytes field by field in the same order.
C14_Struct ==
    /\ (pc \in {"encoded", "decoded"} /\ writer # "short" /\ ty[1] = "Struct")
          => /\ stream = FieldEncodings(config, ty[2], value)
             /\ size(ty, value)
                   = SumSeq([i \in 1..Len(value) |-> size(ty[2][i], value[i])])
             /\ Len(stream) = size(ty, value)
             /\ ty \in {UnnamedStruct, NamedStruct} => size(ty, value) = 3
             /\ ty = UnitStruct => size(ty, value) = 0 /\ stream = <<>>
             /\ (ty = NamedStruct /\ config = "BigEndian"
                   /\ value = <<FromNat(8, 10), FromNat(16, 20)>>)
                  => stream = <<10, 0, 20>>
    /\ (pc = "encoded" /\ writer # "short" /\ ty[1] = "Struct")
          => result = <<"Ok", size(ty, value)>>
    /\ (pc = "decoded" /\ ty[1] = "Struct")
          => result = <<"Ok", value>> /\ cursor = Len(stream)

C14_Witness ==
    /\ pc = "decoded"
    /\ ty = NamedStruct
    /\ config = "BigEndian"
    /\ value = <<FromNat(8, 10), FromNat(16, 20)>>
    /\ stream = <<10, 0, 20>>
    /\ cursor = 3
    /\ result = <<"Ok", value>>

\* the 8 bytes of a count below 256 as a u64 in the byte order cfg
LengthPrefix(cfg, n) ==
    IF cfg = "LittleEndian" THEN <<n, 0, 0, 0, 0, 0, 0, 0>>
    ELSE <<0, 0, 0, 0, 0, 0, 0, n>>

\* C15: a sequence, set or map container, and a String, is an 8-byte u64
\* length prefix in the configured byte order, holding the number of
\* elements (bytes for a String), followed by the encodings of the elements
\* in iteration order, a map's key directly followed by its value; size()
\* is 8 plus the sizes of the elements.
C15_ContainerFormat ==
    (pc \in {"encoded", "decoded"} /\ writer # "short" /\ ty[1] \in ContainerTypes)
        => LET n == Len(value)
               items ==
                   CASE ty[1] \in {"Vec", "BTreeSet"} ->
                          [i \in 1..n |-> Encoding(config, ty[2], value[i])]
                     [] ty[1] = "BTreeMap" ->
                          [i \in 1..n |-> Encoding(config, ty[2], value[i][1])
                                            \o Encoding(config, ty[3], value[i][2])]
                     [] ty[1] = "String" -> [i \in 1..n |-> <<value[i]>>]
           IN  /\ stream = LengthPrefix(config, n) \o Flatten(items)
               /\ size(ty, value) = 8 + SumSeq([i \in 1..n |-> Len(items[i])])

C15_Witness ==
    /\ pc = "encoded"
    /\ writer = "full"
    /\ config = "BigEndian"
    /\ ty = <<"BTreeMap", U8, U16>>
    /\ Len(value) = 2
    /\ stream = <<0, 0, 0, 0, 0, 0, 0, 2, 1, 0, 3, 2, 0, 1>>

\* the integer whose bytes, in the byte order cfg, are the slice b
Held(cfg, b) ==
    Tuple([i \in 1..(8 * Len(b)) |->
             LET k == ((i - 1) \div 8) + 1
                 byte == IF cfg = "LittleEndian" THEN b[k] ELSE b[Len(b) + 1 - k]
             IN  (byte \div Pow2((i - 1) % 8)) % 2])

\* C16: a length-prefixed container whose decoded u64 count does not fit
\* the target's usize decodes to Err(InvalidLength(count)), with nothing
\* read after the prefix and no container built.
C16_InvalidLength ==
    (pc = "input_decoded" /\ ty[1] \in ContainerTypes /\ Len(stream) >= 8
        /\ \E i \in (target_pointer_width + 1)..64 :
               Held(config, SubSeq(stream, 1, 8))[i] = 1)
        => /\ result = <<"Err", <<"InvalidLength", Held(config, SubSeq(stream, 1, 8))>>>>
           /\ cursor = 8

C16_Witness ==
    /\ pc = "input_decoded"
    /\ target_pointer_width = 32
    /\ config = "LittleEndian"
    /\ ty = <<"Vec", I32>>
    /\ stream = <<0, 0, 0, 0, 1, 0, 0, 0, 1, 2, 3, 4, 5, 6, 7, 8, 9>>
    /\ result[1] = "Err"
    /\ result[2][1] = "InvalidLength"
    /\ cursor = 8

\* size_of of the fixed-width integer types, in bytes
NativeBytes(name) ==
    CASE name \in {"u8", "i8"} -> 1
      [] name \in {"u16", "i16"} -> 2
      [] name \in {"u32", "i32"} -> 4
      [] name \in {"u64", "i64"} -> 8
      [] name \in {"u128", "i128"} -> 16
      [] name \in {"usize", "isize"} -> target_pointer_width \div 8

\* C17: a fixed-width integer is written as exactly its native width in
\* bytes, least significant byte first under LittleEndian and most
\* significant first under BigEndian; the free functions, through
\* Config::new_default(), use LittleEndian; decoding with the same
\* endianness returns the value.
C17_FixedWidth ==
    /\ (pc \in {"encoded", "decoded"} /\ writer # "short" /\ ty[1] \in IntTypes)
          => /\ Len(stream) = NativeBytes(ty[1])
             /\ 8 * Len(stream) = Len(value)
             /\ \A k \in 1..Len(stream) :
                   stream[IF config = "LittleEndian" THEN k ELSE Len(stream) + 1 - k]
                       = BitsToNat(value, 8 * (k - 1) + 1, 8 * k)
             /\ entry = "free" => stream[1] = BitsToNat(value, 1, 8)
    /\ (pc = "decoded" /\ ty[1] \in IntTypes) => result = <<"Ok", value>>

C17_Witness ==
    /\ pc = "decoded"
    /\ entry = "free"
    /\ ty = U32
    /\ value = Ramp(32)
    /\ stream = <<1, 2, 3, 4>>
    /\ result = <<"Ok", value>>

\* C18: a char is written as its code point through the u32 path, 4 bytes;
\* a 32-bit value that is a surrogate (0xD800..0xDFFF) or above 0x10FFFF
\* decodes to Err(InvalidChar) carrying it, never to a char or a panic.
C18_Char ==
    /\ (pc \in {"encoded", "decoded"} /\ writer # "short" /\ ty[1] = "char")
          => /\ Len(stream) = 4
             /\ size(ty, value) = 4
             /\ Held(config, stream) = FromNat(32, value)
    /\ (pc = "input_decoded" /\ ty[1] = "char" /\ Len(stream) = 4)
          => LET c == Held(config, stream)
                 low == BitsToNat(c, 1, 21)
             IN  IF \/ \E i \in 22..32 : c[i] = 1
                    \/ low > 1114111
                    \/ (low >= 55296 /\ low <= 57343)
                 THEN result = <<"Err", <<"InvalidChar", c>>>>
                 ELSE result = <<"Ok", low>>

C18_Witness ==
    /\ pc = "input_decoded"
    /\ ty[1] = "char"
    /\ config = "BigEndian"
    /\ stream = <<0, 0, 216, 0>>
    /\ result = <<"Err", <<"InvalidChar", FromNat(32, 55296)>>>>

\* C19: a NonZero integer type decodes the underlying integer of its
\* width; zero is Err(NonZeroError), any other value is that value, and an
\* I/O error of the underlying decode is returned as it is.
C19_NonZero ==
    (pc = "input_decoded" /\ ty[1] = "NonZero")
        => IF Len(stream) < NativeBytes(ty[2][1])
           THEN result = <<"Err", IoError("UnexpectedEof")>>
           ELSE IF \A k \in 1..Len(stream) : stream[k] = 0
                THEN result = <<"Err", <<"NonZeroError">>>>
                ELSE /\ result = <<"Ok", Held(config, stream)>>
                     /\ cursor = NativeBytes(ty[2][1])

C19_Witness ==
    /\ pc = "input_decoded"
    /\ ty = <<"NonZero", U16>>
    /\ stream = <<0, 0>>
    /\ cursor = 2
    /\ result = <<"Err", <<"NonZeroError">>>>

\* C20: decode consumes exactly the bytes the paired encode produced.
\* After v1..vn are encoded one after another onto one stream, decoding
\* the same types in the same order returns v1..vn, each decode moves the
\* cursor by exactly size(vi), and no bytes remain afterwards.
C20_ExactConsumption ==
    /\ pc \in {"seq", "seq_done"}
          => /\ Len(decoded) <= Len(value)
             /\ decoded = SubSeq(value, 1, Len(decoded))
             /\ cursor = SumSeq([i \in 1..Len(decoded) |-> size(ty[2][i], value[i])])
    /\ pc = "seq_done"
          => /\ result = <<"Ok", value>>
             /\ cursor = Len(stream)
    /\ pc = "decoded" => cursor = size(ty, value) /\ cursor = Len(stream)
    /\ (pc = "vi_done" /\ value # <<>>)
          => cursor = size(ty, value) /\ cursor = Len(stream)

C20_Witness ==
    /\ pc = "seq_done"
    /\ ty = <<"Tuple", <<<<"String">>, U8, I32>>>>
    /\ value[1] = <<104, 105>>
    /\ Len(decoded) = 3
    /\ decoded = value
    /\ cursor = 15
    /\ Len(stream) = 15

\* the count a length-prefixed container takes from the slice s: none
\* when the prefix is cut short or does not fit usize, and one more than the
\* slice can hold for every count beyond that
Count(cfg, s) ==
    IF Len(s) < 8 THEN 0
    ELSE With(Held(cfg, SubSeq(s, 1, 8)),
              LAMBDA n : IF \E i \in (target_pointer_width + 1)..64 : n[i] = 1 THEN 0
                         ELSE IF ~FitsNat(n) \/ ToNat(n) > Len(s) THEN Len(s) + 1
                         ELSE ToNat(n))

\* the types whose decode_from a decode_from of t calls on the slice s, in
\* the order of the calls; DecodeElems of them ends at the first that fails
Parts(cfg, t, s) ==
    CASE t[1] = "Option" ->
            IF Len(s) >= 1 /\ s[1] = 1 THEN <<U8, t[2]>> ELSE <<U8>>
      [] t[1] = "Result" ->
            IF Len(s) >= 1 /\ s[1] = 0 THEN <<U8, t[2]>>
            ELSE IF Len(s) >= 1 /\ s[1] = 1 THEN <<U8, t[3]>>
            ELSE <<U8>>
      [] t[1] \in {"Vec", "BTreeSet"} ->
            <<U64>> \o [i \in 1..Count(cfg, s) |-> t[2]]
      [] t[1] = "BTreeMap" ->
            <<U64>> \o [i \in 1..Count(cfg, s) |-> <<"Tuple", <<t[2], t[3]>>>>]
      [] t[1] = "String" -> <<<<"Vec", U8>>>>
      [] t[1] = "Box" -> <<t[2]>>
      [] t[1] = "Array" -> [i \in 1..t[3] |-> t[2]]
      [] t[1] \in {"Tuple", "Struct"} -> t[2]
      [] t[1] = "NonZero" -> <<t[2]>>
      [] t[1] = "bool" -> <<U8>>
      [] t[1] = "char" -> <<U32>>
      [] OTHER -> <<>>

\* C21: when the decode of an element or field nested in a container, tuple,
\* Option, Result, fixed array or derived type fails, the enclosing
\* decode_from returns that same error, the reader is left where the failing
\* read left it, and no value, whole or partial, is returned.
C21_ErrorPropagation ==
    (pc = "input_decoded" /\ ty[1] # "Enum")
        => With(DecodeElems(config, Parts(config, ty, stream), stream, 0, 1, <<>>),
                LAMBDA x : ~x.ok => /\ result = <<"Err", x.err>>
                                    /\ cursor = x.pos
                                    /\ decoded = <<>>)

\* the second element of a Vec<Option<u8>> carries the discriminant 0xFF
C21_Witness ==
    /\ pc = "input_decoded"
    /\ ty = <<"Vec", <<"Option", U8>>>>
    /\ config = "LittleEndian"
    /\ stream = <<2, 0, 0, 0, 0, 0, 0, 0, 1, 1, 255, 2>>
    /\ result = <<"Err", <<"InvalidEnumVariant", 255>>>>
    /\ cursor = 11

\* the bytes of the first n write calls of encode_to
FirstWrites(cfg, t, v, n) == Flatten(SubSeq(encode_to(cfg, t, v), 1, n))

\* C22: when the writer returns an error on a write, encode_to returns
\* Err(IoError) wrapping that error and makes no further write; an error of
\* the writer is the only way encode_to fails.
C22_WriterError ==
    /\ pc = "failed"
          => /\ writer = "broken"
             /\ result = <<"Err", <<"IoError", "BrokenPipe">>>>
             /\ stream = FirstWrites(config, ty, value, wpos - 1)
    /\ pc = "encoded"
          => /\ result[1] = "Ok"
             /\ writer = "broken" => stream = Encoding(config, ty, value)

\* the third write of a Vec<i32> of two elements is refused
C22_Witness ==
    /\ pc = "failed"
    /\ writer = "broken"
    /\ ty = <<"Vec", I32>>
    /\ Len(value) = 2
    /\ wpos = 3
    /\ Len(stream) = 12
    /\ result = <<"Err", <<"IoError", "BrokenPipe">>>>

\* a is a prefix of b
IsPrefix(a, b) == Len(a) <= Len(b) /\ a = SubSeq(b, 1, Len(a))

\* C23: at every suspension point of an encode_to call, so between its
\* writes and after a refused one, the bytes the call has put on the stream
\* are a prefix of the complete encoding of the value; a decode_from call
\* between two of its reads has returned nothing and built no value: what
\* the caller holds is what it held before the call.
C23_SuspensionPrefix ==
    /\ pc \in {"encoding", "encoded", "failed"}
          => IsPrefix(stream, Encoding(config, ty, value))
    /\ pc = "vi_loop"
          => /\ result = IF value = <<>> THEN Pending ELSE <<"Ok", encoded>>
             /\ decoded = <<>>

\* the call c as it was before its first poll
Start(c) == NewCall(c.op, c.ty, c.value, IF c.op = "decode_from" THEN c.stream ELSE <<>>)

\* the call c after n polls with nothing else running
RECURSIVE Alone(_, _, _, _)
Alone(cfg, c, n, chk) ==
    IF n = 0 \/ c.done THEN c ELSE Alone(cfg, Poll(cfg, c, chk), n - 1, chk)

BitLength(bv) ==
    IF bv = Zero(Len(bv)) THEN 0
    ELSE CHOOSE i \in 1..Len(bv) : bv[i] = 1 /\ \A j \in (i + 1)..Len(bv) : bv[j] = 0

\* C25: VarInt::size() is the number of bytes VarInt::encode_to writes for
\* the same magnitude: 1 for the magnitude 0, otherwise the number of 7-bit
\* groups that hold it, ceil(bit length / 7), at most 19 for a u128.
C25_VarIntSize ==
    (pc = "encoded" /\ ty = VarInt)
        => /\ size(ty, value) = Len(stream)
           /\ result = <<"Ok", size(ty, value)>>
           /\ size(ty, value) = IF BitLength(value) = 0 THEN 1
                                 ELSE (BitLength(value) + 6) \div 7
           /\ size(ty, value) <= 19

\* 2^126, a magnitude of 127 bits, takes 19 bytes
C25_Witness ==
    /\ pc = "encoded"
    /\ ty = VarInt
    /\ BitLength(value) = 127
    /\ Len(stream) = 19
    /\ stream[19] = 1

\* the encoded width of an element of fixed width
ElemBytes(t) == IF t[1] = "bool" THEN 1 ELSE NativeBytes(t[1])

\* C26: decoding a fixed array [T; N] returns the error of the first
\* failing element decode, an I/O error when the stream is short, or the
\* array of the N elements decoded in index order; no input stream yields
\* Error::PartiallyFilledArray.
C26_FixedArrayDecode ==
    /\ (pc \in {"input_decoded", "decoded"} /\ ty[1] = "Array")
          => LET w == ElemBytes(ty[2])
             IN  IF Len(stream) < ty[3] * w
                 THEN result = <<"Err", IoError("UnexpectedEof")>>
                 ELSE /\ result[1] = "Ok"
                      /\ Len(result[2]) = ty[3]
                      /\ cursor = ty[3] * w
                      /\ \A k \in 1..ty[3] :
                            LET b == SubSeq(stream, (k - 1) * w + 1, k * w)
                            IN  result[2][k] = IF ty[2][1] = "bool" THEN b[1] # 0
                                               ELSE Held(config, b)
    /\ (pc \in {"input_decoded", "decoded", "seq_done"} /\ result[1] = "Err")
          => result[2][1] # "PartiallyFilledArray"

\* two of the three elements of a [i32; 3] are on the stream
C26_Witness ==
    /\ pc = "input_decoded"
    /\ ty = <<"Array", I32, 3>>
    /\ Len(stream) = 8
    /\ result = <<"Err", IoError("UnexpectedEof")>>

\* C27: a bool is written as one byte, 0 for false and 1 for true; decoding
\* a bool accepts every byte value, 0 as false and each of the 255 others as
\* true, so encoding the decoded value gives back the input byte only when
\* that byte is 0 or 1.
C27_Bool ==
    /\ (pc \in {"encoded", "decoded"} /\ ty[1] = "bool")
          => stream = <<IF value THEN 1 ELSE 0>>
    /\ (pc = "input_decoded" /\ ty[1] = "bool" /\ Len(stream) = 1)
          => /\ result = <<"Ok", stream[1] # 0>>
             /\ cursor = 1
             /\ (Encoding(config, ty, result[2]) = stream) <=> (stream[1] \in {0, 1})

\* the byte 0x02 decodes to true, which is written as 0x01
C27_Witness ==
    /\ pc = "input_decoded"
    /\ ty[1] = "bool"
    /\ stream = <<2>>
    /\ result = <<"Ok", TRUE>>
    /\ Encoding(config, ty, result[2]) = <<1>>

\* C28: VarInt encode_to emits the minimal form, whose last byte is not zero
\* unless the magnitude is 0; decode_from accepts, without an error, a form
\* padded with groups of zero (such as [0x80, 0x00]) and returns the
\* magnitude of the minimal form, so that encoding the decoded value gives
\* fewer bytes than were read.
C28_NonCanonical ==
    /\ (pc = "encoded" /\ ty = VarInt)
          => /\ Len(stream) >= 1
             /\ stream[Len(stream)] = 0 => (value = Zero(128) /\ stream = <<0>>)
    /\ (pc = "vi_done" /\ value = <<>> /\ Len(stream) \in 2..19
           /\ cursor = Len(stream) /\ stream[Len(stream)] = 0)
          => /\ result[1] = "Ok"
             /\ With(Encoding(config, VarInt, result[2]),
                     LAMBDA canon :
                        /\ canon # stream
                        /\ Len(canon) < Len(stream)
                        /\ VarIntLoop(canon, 0, Zero(128), 0, checks)
                               = DecOk(result[2], Len(canon)))

\* [0x81, 0x00] decodes to 1, whose encoding is [0x01]
C28_Witness ==
    /\ pc = "vi_done"
    /\ value = <<>>
    /\ stream = <<129, 0>>
    /\ result = <<"Ok", One(128)>>
    /\ Encoding(config, VarInt, result[2]) = <<1>>

\* the width of an entry of a set or map of fixed-width integers
EntryBytes(t) ==
    NativeBytes(t[2][1]) + IF t[1] = "BTreeMap" THEN NativeBytes(t[3][1]) ELSE 0

\* the key and the value of the k-th entry on the stream s
KeyAt(cfg, t, s, k) ==
    Held(cfg, SubSeq(s, 8 + (k - 1) * EntryBytes(t) + 1,
                        8 + (k - 1) * EntryBytes(t) + NativeBytes(t[2][1])))
ValueAt(cfg, t, s, k) ==
    Held(cfg, SubSeq(s, 8 + (k - 1) * EntryBytes(t) + NativeBytes(t[2][1]) + 1,
                        8 + k * EntryBytes(t)))

C30_Conversions ==
    /\ pc = "cv_done" => result = <<"Ok", value>>
    /\ pc = "vc_done"
          => IF BitLength(value) > Width(ty[1])
             THEN result = <<"Err", <<"TryFromIntError">>>>
             ELSE /\ result[1] = "Ok"
                  /\ Len(result[2]) = Width(ty[1])
                  /\ VarInt_from(ty[1], result[2]) = value

\* isize::MIN of a 64-bit target is the magnitude 2^64 - 1 and comes back
C30_Witness ==
    /\ pc = "cv_done"
    /\ ty[1] = "isize"
    /\ target_pointer_width = 64
    /\ value = MinOf(64)
    /\ zz = ZeroExtend(Ones(64), 128)
    /\ result = <<"Ok", value>>

====
